---- MODULE Spec2Model ----
(***************************************************************************)
(* A model of the realtime core of guilded.py: the event dispatch engine   *)
(* of ClientBase (wait_for / dispatch / event / _run_event) and the        *)
(* gateway receive loops of connect (listen_socks) with their back-off.    *)
(***************************************************************************)
EXTENDS Integers, Sequences, FiniteSets, TLC

(* ------------------------------ bounds -------------------------------- *)
\* how many wait_for calls a behaviour makes
MaxWaiters == 3
\* how many scheduled handler tasks may be waiting to run
MaxTasks == 1

(* ----------------------------- inputs --------------------------------- *)
\* event names the application uses with wait_for, dispatch and event()
EventNames == {"message", "Message", "typing"}

\* positional arguments of a dispatch: none, one, or several
ArgTuples == {<< >>, <<"a">>, <<"b">>, <<"a", "b">>}

\* the predicates given to wait_for: "always" is the default _check,
\* "one_a" is a one-parameter check  lambda m: m == "a"  (called with any
\* other number of arguments it raises TypeError)
Preds == {"always", "one_a"}

\* what a registered coroutine does when it runs
HandlerKinds == {"ok", "raises"}

WaiterIds == 1..MaxWaiters

None == "None"

\* the event names that may have a waiter or a handler: the application's
\* and the ones connect and its receive loops publish; the router's raw
\* and resolved events have neither
AllEvents == EventNames \cup
    {"connect", "disconnect", "team_connect", "team_disconnect", "ready", "error"}

VARIABLES
    listeners,   \* self._listeners: event key -> list of (future, check)
                 \* pairs, the future named by its waiter (absent = << >>)
    future,      \* the state of each waiter's future
    handlers,    \* the on_<event> attributes of the client; "absent" if unset
    tasks,       \* the _ClientEventTask objects scheduled and not yet run
    last,        \* the last dispatch call: its arguments and ordered effects
    ran          \* the last handler task that ran, and how it ended

dvars == <<listeners, future, handlers, tasks, last, ran>>

VARIABLES
    client,      \* the class of the client and connect's reconnect argument
    nTeams,      \* how many teams the client has cached (self.teams)
    cpc,         \* where connect() is
    ti,          \* the team whose session connect() is building
    closed,      \* self._closed
    ready,       \* self._ready
    stored,      \* self.ws (slot 0) and team.ws: 0 is None, k the k-th session
    built,       \* how many sessions were built for each slot
    open,        \* per slot, the sessions whose transport is open
    lpc,         \* where each listen_socks loop is
    lws,         \* the local `ws` of each listen_socks loop
    backoff,     \* the local next_backoff_time of each loop
    failed,      \* per loop: rebuild attempts failed since its last good poll
    trail,       \* per loop: what it did since the closure it is handling
    polled,      \* the poll_event call that has just returned or raised
    hb,          \* per slot: the heartbeaters of the session its loop holds
    messages,    \* the ids in the message cache (http._messages)
    contents,    \* the (channel type, id) pairs of the forum topics, docs and
                 \* announcements cached on the channel
    codec        \* one GuildedWebSocket object, seen from inside: its
                 \* transport, its hello data, and its last operation

svars == <<client, nTeams, cpc, ti, closed, ready, stored, built, open,
           lpc, lws, backoff, failed, trail, hb, messages, contents, codec>>

vars == <<listeners, future, handlers, tasks, last, ran,
          client, nTeams, cpc, ti, closed, ready, stored, built, open,
          lpc, lws, backoff, failed, trail, polled, hb, messages,
          contents, codec>>

(* ------------------------- pure helpers ------------------------------- *)
\* str.lower() on the event names in use
Lower(ev) == IF ev = "Message" THEN "message" ELSE ev

\* 'on_' + event
Method(ev) == "on_" \o ev

Methods == {Method(ev) : ev \in AllEvents}

\* condition(*args): "true", "false", or the name of the exception raised
Eval(p, args) ==
    CASE p = "always" -> "true"
      [] p = "one_a"  -> IF Len(args) = 1
                         THEN (IF args[1] = "a" THEN "true" ELSE "false")
                         ELSE "TypeError"

\* values a future can hold, all of one shape: None, one argument, a tuple
\* of arguments, or an exception
NoneVal == [kind |-> "none", v |-> << >>]
ExcVal(name) == [kind |-> "exception", v |-> <<name>>]

\* variant: set_result(args) whatever the number of arguments
ResultOfAlwaysTuple(args) == [kind |-> "tuple", v |-> args]

\* the value dispatch passes to future.set_result
ResultOf(args) ==
    IF Len(args) = 0 THEN NoneVal
    ELSE IF Len(args) = 1 THEN [kind |-> "arg", v |-> <<args[1]>>]
    ELSE [kind |-> "tuple", v |-> args]

\* a future: its state and the value or exception it holds
Unborn == [st |-> "unborn", val |-> NoneVal]

\* the waiters wait_for has created so far
Born == {w \in WaiterIds : future[w].st # "unborn"}

\* no dispatch call has just returned; no task has just run
NoCall == [called |-> FALSE, event |-> None, args |-> << >>, log |-> << >>,
           raised |-> None, events |-> << >>]
\* no poll_event call has just ended
NoEnv == [team |-> FALSE, channel |-> FALSE, entity |-> FALSE, fetch |-> FALSE]
NoPoll == [polled |-> FALSE, s |-> 0, frame |-> None, raised |-> None,
           id |-> None, env |-> NoEnv, fetches |-> 0, ctype |-> None]
\* a JSON object of the wire: the keys it has and, for each key of
\* interest, its value (meaningful only when the key is there)
EmptyObj == [keys |-> {}, type |-> "", sid |-> "", upgrades |-> << >>,
             pingInterval |-> 0, body |-> ""]
\* no operation of a session has just ended
NoOp == [op |-> None, text |-> << >>, sent |-> << >>, polls |-> 0,
         class |-> None, kind |-> None, data |-> EmptyObj,
         ret |-> None, raised |-> None, closed_with |-> 0]
\* GuildedWebSocket.__init__: no hello data, no heartbeater, no close code
\* (0 stands for None); before build there is no transport
NoSession == [sock |-> "none", sid |-> None, upgrades |-> << >>,
              started |-> 0, interval |-> 0, close_code |-> 0, did |-> NoOp]
NoRun == [run |-> FALSE, method |-> None, args |-> << >>, raised |-> FALSE,
          on_error |-> << >>, leaves |-> None]

(* --------------------------- wait_for --------------------------------- *)
\* wait_for(event, check=p, timeout=...): a new future is appended, with
\* its check, to the list under event.lower()
WaitFor(ev, p) ==
    /\ Cardinality(Born) < MaxWaiters
    /\ LET w == Cardinality(Born) + 1
           key == Lower(ev)
       IN  /\ future' = [future EXCEPT ![w].st = "pending"]
           /\ listeners' = [listeners EXCEPT
                                ![key] = Append(@, [w |-> w, check |-> p])]
    /\ last' = NoCall
    /\ ran' = NoRun
    /\ polled' = NoPoll
    /\ UNCHANGED <<handlers, tasks>>
    /\ UNCHANGED svars

\* asyncio.wait_for(future, timeout) reaches its timeout: it cancels the
\* future and raises TimeoutError in the caller; the registry is not touched
Timeout(w) ==
    /\ future[w].st = "pending"
    /\ future' = [future EXCEPT ![w].st = "cancelled"]
    /\ last' = NoCall
    /\ ran' = NoRun
    /\ polled' = NoPoll
    /\ UNCHANGED <<listeners, handlers, tasks>>
    /\ UNCHANGED svars

(* --------------------------- dispatch --------------------------------- *)
\* one entry of the ordered effects of a dispatch call
Effect(op, w) == [op |-> op, w |-> w]

\* the walk over the listeners of one dispatch call: the futures as they
\* are now, the indexes collected in `removed`, the effects so far, and the
\* exception that left the loop, if one did
StartWalk(fut) == [fut |-> fut, removed |-> << >>, log |-> << >>, raised |-> None]

\* future.set_result / future.set_exception: only a pending future takes a
\* value, a done one raises InvalidStateError
SetFuture(acc, w, st, val) ==
    IF acc.fut[w].st = "pending"
    THEN [acc EXCEPT !.fut[w].st = st, !.fut[w].val = val,
                     !.log = Append(@, Effect(st, w))]
    ELSE [acc EXCEPT !.raised = "InvalidStateError"]

\* variant: the walk does not look at future.cancelled()
IsCancelledNever(f) == FALSE

\* if future.cancelled(): removed.append(i); continue
IsCancelled(f) == f.st = "cancelled"

OnCancelled(acc, i, w) ==
    [acc EXCEPT !.removed = Append(@, i),
                !.log = Append(@, Effect("prune", w))]

\* variant: no try/except around condition(*args): the exception leaves
\* the loop and dispatch
OnRaisePropagates(acc, i, w, exc) == [acc EXCEPT !.raised = exc]

\* except Exception as exc: future.set_exception(exc); removed.append(i)
OnRaise(acc, i, w, exc) ==
    LET a == SetFuture(acc, w, "exception", ExcVal(exc))
    IN  IF a.raised # None THEN a ELSE [a EXCEPT !.removed = Append(@, i)]

\* else: if result: future.set_result(...); removed.append(i)
OnResult(acc, i, w, result, args) ==
    IF result = "true"
    THEN LET a == SetFuture(acc, w, "result", ResultOf(args))
         IN  IF a.raised # None THEN a ELSE [a EXCEPT !.removed = Append(@, i)]
    ELSE [acc EXCEPT !.log = Append(@, Effect("skip", w))]

\* one iteration of  for i, (future, condition) in enumerate(listeners)
WalkStep(acc, i, l, args) ==
    IF IsCancelled(acc.fut[l.w]) THEN OnCancelled(acc, i, l.w)
    ELSE LET result == Eval(l.check, args)
         IN  IF result \in {"true", "false"}
             THEN OnResult(acc, i, l.w, result, args)
             ELSE OnRaise(acc, i, l.w, result)

\* variant: the loop breaks after the first waiter it resolves
RECURSIVE WalkFirstMatch(_, _, _, _)
WalkFirstMatch(acc, ls, i, args) ==
    IF i > Len(ls) \/ acc.raised # None
       \/ \E k \in 1..Len(acc.log) : acc.log[k].op = "result"
    THEN acc
    ELSE WalkFirstMatch(WalkStep(acc, i, ls[i], args), ls, i + 1, args)

RECURSIVE Walk(_, _, _, _)
Walk(acc, ls, i, args) ==
    IF i > Len(ls) \/ acc.raised # None THEN acc
    ELSE Walk(WalkStep(acc, i, ls[i], args), ls, i + 1, args)

\* variant: the removed indexes are deleted in ascending order, each one
\* shifting the entries after it
RECURSIVE DelIndexesAscending(_, _)
DelIndexesAscending(ls, removed) ==
    IF removed = << >> THEN ls
    ELSE LET idx == Head(removed)
         IN  DelIndexesAscending(
                 IF idx > Len(ls) THEN ls
                 ELSE SubSeq(ls, 1, idx - 1) \o SubSeq(ls, idx + 1, Len(ls)),
                 Tail(removed))

\* for idx in reversed(removed): del listeners[idx]
RECURSIVE DelIndexes(_, _)
DelIndexes(ls, removed) ==
    IF removed = << >> THEN ls
    ELSE LET idx == removed[Len(removed)]
         IN  DelIndexes(SubSeq(ls, 1, idx - 1) \o SubSeq(ls, idx + 1, Len(ls)),
                        SubSeq(removed, 1, Len(removed) - 1))

\* variant: the removed indexes are collected and never deleted
PruneNothing(ls, removed) == ls

\* if len(removed) == len(listeners): self._listeners.pop(event)
\* else: delete the removed indexes
Prune(ls, removed) ==
    IF Len(removed) = Len(ls) THEN << >> ELSE DelIndexes(ls, removed)

\* what a dispatch call works on: the futures, the registry, the tasks
Engine == [fut |-> future, ls |-> listeners, tasks |-> tasks,
           log |-> << >>, raised |-> None]

\* listeners = self._listeners.get(event): nothing for a key never used
Listening(reg, ev) == IF ev \in DOMAIN reg THEN reg[ev] ELSE << >>

\* coro = getattr(self, method), "absent" on AttributeError
Coro(ev) == IF Method(ev) \in DOMAIN handlers THEN handlers[Method(ev)]
                                              ELSE "absent"

\* the waiter half of dispatch: `if listeners:` ... up to the pruning
ResolveWaiters(e, ev, args) ==
    LET ls == Listening(e.ls, ev)
        acc == IF ls # << >> THEN Walk(StartWalk(e.fut), ls, 1, args)
                             ELSE StartWalk(e.fut)
    IN  [fut |-> acc.fut,
         ls |-> IF ev \notin DOMAIN e.ls THEN e.ls
                ELSE [e.ls EXCEPT ![ev] = IF acc.raised # None THEN ls
                                          ELSE Prune(ls, acc.removed)],
         tasks |-> e.tasks, log |-> acc.log, raised |-> acc.raised]

\* the handler half of dispatch: getattr(self, 'on_' + event) and, if it is
\* there, _schedule_event(coro, method, *args)
ScheduleHandler(d, ev, args) ==
    IF Coro(ev) = "absent" THEN d
    ELSE [d EXCEPT !.tasks = Append(@, [method |-> Method(ev),
                                        coro |-> Coro(ev),
                                        args |-> args]),
                   !.log = Append(@, Effect("schedule", 0))]

\* variant: the handler is scheduled first, the waiters are walked after
DispatchHandlerFirst(e, ev, args) ==
    LET r == ResolveWaiters(e, ev, args)
        h == ScheduleHandler([e EXCEPT !.log = << >>], ev, args)
    IN  [r EXCEPT !.log = h.log \o r.log, !.tasks = h.tasks]

\* dispatch(event, *args), whole: the waiters, then the handler; an
\* exception in the waiter half leaves dispatch before the handler half
DispatchOn(e, ev, args) ==
    LET r == ResolveWaiters(e, ev, args)
    IN  IF r.raised # None THEN r ELSE ScheduleHandler(r, ev, args)

\* one dispatch call to make
Call(ev, args) == [ev |-> ev, args |-> args]

\* several dispatch calls made one after the other with no suspension
\* between them; an exception ends the run
RECURSIVE DispatchAll(_, _)
DispatchAll(e, calls) ==
    IF calls = << >> \/ e.raised # None THEN e
    ELSE DispatchAll(DispatchOn(e, Head(calls).ev, Head(calls).args), Tail(calls))

\* whether dispatch(ev, ...) would create a task
Schedules(ev) == Coro(ev) # "absent"

\* room among the scheduled tasks for the tasks these calls create
RoomFor(calls) ==
    Len(tasks) + Cardinality({i \in 1..Len(calls) : Schedules(calls[i].ev)})
        <= MaxTasks

\* the state change of a run of dispatch calls (of one, mostly), with the
\* record of the last call; no call at all leaves the engine as it is
DoDispatchAll(calls) ==
    IF calls = << >>
    THEN /\ last' = [called |-> FALSE, event |-> None, args |-> << >>,
                     log |-> << >>, raised |-> None, events |-> << >>]
         /\ UNCHANGED <<future, listeners, tasks>>
    ELSE \E d \in {DispatchAll(Engine, calls)} :
         LET c == calls[Len(calls)]
         IN  /\ future' = d.fut
             /\ listeners' = d.ls
             /\ tasks' = d.tasks
             /\ last' = [called |-> TRUE, event |-> c.ev, args |-> c.args,
                         log |-> d.log, raised |-> d.raised,
                         events |-> [i \in 1..Len(calls) |-> calls[i].ev]]

\* dispatch called by the application
Dispatch(ev, args) ==
    /\ RoomFor(<<Call(ev, args)>>)
    /\ DoDispatchAll(<<Call(ev, args)>>)
    /\ ran' = NoRun
    /\ polled' = NoPoll
    /\ UNCHANGED handlers
    /\ UNCHANGED svars

(* ----------------------- persistent handlers -------------------------- *)
\* event(coro): setattr(self, coro.__name__, coro); the last one wins
Register(ev, kind) ==
    /\ handlers[Method(ev)] # kind
    /\ handlers' = [handlers EXCEPT ![Method(ev)] = kind]
    /\ last' = NoCall
    /\ ran' = NoRun
    /\ polled' = NoPoll
    /\ UNCHANGED <<listeners, future, tasks>>
    /\ UNCHANGED svars

\* variant: _run_event without its except clause
RunEventNoCatch(t) ==
    [run |-> TRUE, method |-> t.method, args |-> t.args,
     raised |-> t.coro = "raises", on_error |-> << >>,
     leaves |-> IF t.coro = "raises" THEN "Exception" ELSE None]

\* _run_event(coro, event_name, *args): the coroutine runs; if it raises,
\* on_error(event_name, *args) runs in its place; what leaves the task
RunEvent(t) ==
    IF t.coro = "raises"
    THEN [run |-> TRUE, method |-> t.method, args |-> t.args, raised |-> TRUE,
          on_error |-> <<t.method>> \o t.args,
          leaves |-> IF handlers["on_error"] = "raises" THEN "Exception" ELSE None]
    ELSE [run |-> TRUE, method |-> t.method, args |-> t.args, raised |-> FALSE,
          on_error |-> << >>, leaves |-> None]

\* the event loop runs the oldest scheduled task
RunTask ==
    /\ tasks # << >>
    /\ ran' = RunEvent(Head(tasks))
    /\ polled' = NoPoll
    /\ tasks' = Tail(tasks)
    /\ last' = NoCall
    /\ UNCHANGED <<listeners, future, handlers>>
    /\ UNCHANGED svars

\* ClientBase.__init__: no listeners; on_error is the method of the class
DInit ==
    /\ listeners = [ev \in AllEvents |-> << >>]
    /\ future = [w \in WaiterIds |-> Unborn]
    /\ handlers = [m \in Methods |-> IF m = "on_error" THEN "ok" ELSE "absent"]
    /\ tasks = << >>
    /\ last = NoCall
    /\ ran = NoRun

(* ------------------------- gateway sessions --------------------------- *)
\* next_backoff_time = 5, and the step it grows by
Base == 5
\* asyncio.wait_for(build, timeout=60)
ConnectTimeout == 60

\* how many rebuild attempts in a row may time out
MaxFail == 2
\* how many sessions may be built for one slot, the first one included
MaxBuilt == 2

\* self.teams holds no team or one; slot 0 is the main session, slot t the
\* session of team t
Teams == {1}
Slots == {0} \cup Teams
Live == {s \in Slots : s <= nTeams}

\* team.id; the main session has teamId None
TeamId(s) == IF s = 0 THEN None ELSE "t1"
\* the Team object of a slot, which team_connect is published with
TeamOf(s) == "Team(" \o TeamId(s) \o ")"

\* WebSocket.build: the session, the handshake error it returns in place of
\* one, an exception that leaves it (the transport's, or the closure signal
\* of the poll it makes), or no answer before wait_for's timeout
BuildOutcomes == {"ok", "handshake_error", "raises", "timeout"}

\* Heartbeater.__init__: self.latency = float('inf')
Inf == "inf"

\* a session without a heartbeater: its latency is float('inf') too
NoDriver == [drivers |-> 0, beats |-> 0, latency |-> Inf, stopped |-> None]

\* received_event on a frame with a sid: a new Heartbeater replaces the
\* session's _heartbeater and is started; the one it replaces runs on
OnHello(h) ==
    [drivers |-> h.drivers + 1, beats |-> 0, latency |-> Inf, stopped |-> None]

\* build: the raw heartbeat is sent and one frame polled, the handshake
\* frame, on a new session
AfterBuild == OnHello(NoDriver)

\* the payload of a handshake frame: it carries a sid
HelloFrame == "sid"

\* one entry of a loop's trail
Did(op, ev, team, n) == [op |-> op, ev |-> ev, team |-> team, n |-> n]

\* the event a loop publishes on a closure, and the one that complements it
DisconnectCall(s) ==
    IF s # 0 THEN Call("team_disconnect", <<TeamId(s)>>) ELSE Call("disconnect", << >>)
ConnectEvent(s) == IF s # 0 THEN "team_connect" ELSE "connect"

\* asyncio.gather / await listen_socks: the first exception of a loop leaves
\* connect(); the other loops keep running
LoopRaised == IF cpc = "listening" THEN "raised" ELSE cpc

\* listen_socks(self.ws), *[listen_socks(team.ws, team) ...]: a loop whose ws
\* is None ends at once
StartLoops(st) == [s \in Slots |-> IF s \in Live /\ st[s] # 0 THEN "poll"
                                    ELSE IF s \in Live THEN "exit" ELSE "off"]

\* variant: ready is published and the loops start, the gate left as it is
ListenGateUnset(st, calls) ==
    /\ ready' = ready
    /\ RoomFor(calls \o <<Call("ready", << >>)>>)
    /\ DoDispatchAll(calls \o <<Call("ready", << >>)>>)
    /\ lpc' = [s \in Slots |-> IF s \in Live /\ st[s] # 0 THEN "poll"
                                ELSE IF s \in Live THEN "exit" ELSE "off"]
    /\ lws' = st
    /\ cpc' = "listening"

\* self._ready.set(); self.dispatch('ready'); gather(...)
Listen(st, calls) ==
    /\ ready' = TRUE
    /\ RoomFor(calls \o <<Call("ready", << >>)>>)
    /\ DoDispatchAll(calls \o <<Call("ready", << >>)>>)
    /\ lpc' = StartLoops(st)
    /\ lws' = st
    /\ cpc' = "listening"

\* connect() is called: while not self.closed
ConnectStart ==
    /\ cpc = "idle"
    /\ cpc' = IF closed THEN "returned" ELSE "main_build"
    /\ last' = NoCall
    /\ ran' = NoRun
    /\ polled' = NoPoll
    /\ UNCHANGED <<listeners, future, handlers, tasks>>
    /\ UNCHANGED <<client, nTeams, ti, closed, ready, stored, built, open,
                   lpc, lws, backoff, failed, trail>>
    /\ UNCHANGED <<hb, messages, contents, codec>>

\* gws = await asyncio.wait_for(ws_build, timeout=60) and what follows it up
\* to the next await
MainBuilt(outcome) ==
    /\ cpc = "main_build"
    /\ ran' = NoRun
    /\ polled' = NoPoll
    /\ hb' = IF outcome = "ok" THEN [hb EXCEPT ![0] = AfterBuild] ELSE hb
    /\ UNCHANGED <<messages, contents, codec>>
    /\ UNCHANGED <<handlers, client, nTeams, closed, backoff, failed, trail>>
    /\ CASE outcome = "ok" ->
               LET st == [stored EXCEPT ![0] = 1]
               IN  /\ stored' = st
                   /\ built' = [built EXCEPT ![0] = 1]
                   /\ open' = [open EXCEPT ![0] = {1}]
                   /\ IF nTeams = 0
                      THEN /\ Listen(st, <<Call("connect", << >>)>>)
                           /\ UNCHANGED ti
                      ELSE /\ RoomFor(<<Call("connect", << >>)>>)
                           /\ DoDispatchAll(<<Call("connect", << >>)>>)
                           /\ cpc' = "team_build"
                           /\ ti' = 1
                           /\ UNCHANGED <<ready, lpc, lws>>
         [] outcome = "handshake_error" ->
               /\ RoomFor(<<Call("error", <<"exc">>)>>)
               /\ DoDispatchAll(<<Call("error", <<"exc">>)>>)
               /\ cpc' = "returned"
               /\ UNCHANGED <<ti, ready, stored, built, open, lpc, lws>>
         [] OTHER ->
               /\ cpc' = "raised"
               /\ DoDispatchAll(<< >>)
               /\ UNCHANGED <<ti, ready, stored, built, open, lpc, lws>>

\* team_ws = await asyncio.wait_for(team_ws_build, timeout=60) for one team
\* of  for team in self.teams,  and what follows it up to the next await
TeamBuilt(outcome) ==
    /\ cpc = "team_build"
    /\ ran' = NoRun
    /\ polled' = NoPoll
    /\ hb' = IF outcome = "ok" THEN [hb EXCEPT ![ti] = AfterBuild] ELSE hb
    /\ UNCHANGED <<messages, contents, codec>>
    /\ UNCHANGED <<handlers, client, nTeams, closed, backoff, failed, trail>>
    /\ IF outcome \in {"ok", "handshake_error"}
       THEN LET ok == outcome = "ok"
                st == IF ok THEN [stored EXCEPT ![ti] = 1] ELSE stored
                calls == IF ok THEN <<Call("team_connect", <<TeamOf(ti)>>)>>
                               ELSE << >>
            IN  /\ stored' = st
                /\ built' = IF ok THEN [built EXCEPT ![ti] = 1] ELSE built
                /\ open' = IF ok THEN [open EXCEPT ![ti] = {1}] ELSE open
                /\ IF ti < nTeams
                   THEN /\ RoomFor(calls)
                        /\ DoDispatchAll(calls)
                        /\ ti' = ti + 1
                        /\ UNCHANGED <<cpc, ready, lpc, lws>>
                   ELSE /\ Listen(st, calls)
                        /\ UNCHANGED ti
       ELSE /\ cpc' = "raised"
            /\ DoDispatchAll(<< >>)
            /\ UNCHANGED <<ti, ready, stored, built, open, lpc, lws>>

\* how many heartbeaters of one session may run at once
MaxDrivers == 2
\* how many heartbeats of one heartbeater are followed
MaxBeats == 2

\* the payloads of the text frames a session receives: a numeric one, an
\* application event of a kind the router translates, and one of a kind
\* it has no translation for
TextFrames == {"2", "ChatMessageCreated", "ServerAddedKind"}

\* the translations WebSocketEventParsers defines (one stands for all)
RoutedKinds == {"ChatMessageCreated", "ChatMessageDeleted", "ChatMessageUpdated",
                "ChatPinnedMessageCreated", "ChatPinnedMessageDeleted"}
KnownKinds == RoutedKinds

\* what running a translation may end in: it returns, or raises the
\* library's error type or another exception
TranslationFaults == {"GuildedException", "KeyError"}

\* variant: a kind without a translation gets the one of a known kind
GetCatchAll(kind) == "ChatMessageCreated"

\* WebSocketEventParsers.get: getattr(self, event_name, None)
Get(kind) == IF kind \in KnownKinds THEN kind ELSE None

\* variant: the exception is re-raised as it is
WrapNothing(e) == e

\* exc = GuildedException(e), unless e is a GuildedException already
Wrap(e) == IF e = "GuildedException" THEN e ELSE "GuildedException(" \o e \o ")"

\* the ids of the messages frames refer to; "a" was sent in a team's
\* channel (its team is not None), "b" in a DM channel
MsgIds == {"a", "b"}
TeamMessage(id) == id = "a"

\* what a translation finds: whether the frame carries a teamId (for the
\* pin events: whether its channelType is 'Team'), whether its channel is
\* cached, whether the team or the user it names is cached, and whether
\* the requests it makes to the REST API succeed
Envs == [team : BOOLEAN, channel : BOOLEAN, entity : BOOLEAN, fetch : BOOLEAN]

\* everything a ChatMessageCreated frame of a team's channel names is cached
Resolved == [team |-> TRUE, channel |-> TRUE, entity |-> TRUE, fetch |-> TRUE]

\* what a translation did: its dispatch calls, what it raised, how many
\* requests it made and the message cache it leaves
Did4(calls, raises, fetches, msgs) ==
    [calls |-> calls, raises |-> raises, fetches |-> fetches, messages |-> msgs]

Count(flags) == Cardinality({i \in 1..Len(flags) : flags[i]})

\* variant: the message is published without being cached
ChatMessageCreatedUncached(id, env, msgs) ==
    Did4(<<Call("message", <<id>>)>>, None, 0, msgs)

\* ChatMessageCreated: getch_channel (cache or NotFound, swallowed); with a
\* teamId the channel's team or getch_team (cache, else a request, failure
\* swallowed), without one getch_user (cache, else a request); a channel
\* still missing is requested from the team or from the API; the message
\* is created, cached and published
ChatMessageCreated(id, env, msgs) ==
    LET channel == env.channel
        teamFetch == env.team /\ ~channel /\ ~env.entity
        userFetch == ~env.team /\ ~env.entity
        userFails == userFetch /\ ~env.fetch
        chanFetch == ~channel /\ ~userFails
        chanFails == chanFetch /\ ~env.fetch
        fetches == Count(<<teamFetch, userFetch, chanFetch>>)
    IN  IF userFails \/ chanFails
        THEN Did4(<< >>, "HTTPException", fetches, msgs)
        ELSE Did4(<<Call("message", <<id>>)>>, None, fetches, msgs \cup {id})

\* ChatMessageDeleted: the raw event; for a cached message
\* self.client.cached_messages.remove(message), on the list the property
\* builds for the call, and message_delete
ChatMessageDeleted(id, env, msgs) ==
    Did4(<<Call("raw_message_delete", <<id>>)>>
            \o (IF id \in msgs THEN <<Call("message_delete", <<id>>)>> ELSE << >>),
         None, 0, msgs)

\* variant: message_edit is published for a message that is not cached
ChatMessageUpdatedUnchecked(id, env, msgs) ==
    Did4(<<Call("raw_message_edit", <<id>>), Call("message_edit", <<id, id>>)>>,
         None, 0, msgs \cup {id})

\* ChatMessageUpdated: the raw event; for a cached message the edited one
\* replaces it in the cache and message_edit(before, after)
ChatMessageUpdated(id, env, msgs) ==
    Did4(<<Call("raw_message_edit", <<id>>)>>
            \o (IF id \in msgs THEN <<Call("message_edit", <<id, id>>)>> ELSE << >>),
         None, 0, msgs)

\* ChatPinnedMessageCreated / ChatPinnedMessageDeleted (verb "pinned" /
\* "unpinned"): the raw event by the frame's channelType, then for a cached
\* message the resolved one by the message's team
ChatPinnedMessage(verb, id, env, msgs) ==
    LET raw == IF env.team THEN "raw_team_message_" \o verb
                           ELSE "raw_dm_message_" \o verb
        resolved == IF TeamMessage(id) THEN "team_message_" \o verb
                                       ELSE "dm_message_" \o verb
    IN  Did4(<<Call(raw, <<id>>)>>
                \o (IF id \in msgs THEN <<Call(resolved, <<id>>)>> ELSE << >>),
             None, 0, msgs)

\* event = self._parsers.get(data['type'], data['data']); await event
Translate(kind, id, env, msgs) ==
    CASE kind = "ChatMessageCreated" -> ChatMessageCreated(id, env, msgs)
      [] kind = "ChatMessageDeleted" -> ChatMessageDeleted(id, env, msgs)
      [] kind = "ChatMessageUpdated" -> ChatMessageUpdated(id, env, msgs)
      [] kind = "ChatPinnedMessageCreated" -> ChatPinnedMessage("pinned", id, env, msgs)
      [] OTHER -> ChatPinnedMessage("unpinned", id, env, msgs)

\* received_event on an application frame: an exception of the translation
\* is wrapped, published as `error` and raised
Routed(kind, id, env, msgs) ==
    LET t == Translate(Get(kind), id, env, msgs)
    IN  IF t.raises = None
        THEN t
        ELSE [t EXCEPT !.calls = @ \o <<Call("error", <<Wrap(t.raises)>>)>>,
                       !.raises = Wrap(t.raises)]

\* ChatMessageCreated with everything cached: dispatch('message', message)
Translated(kind) == Routed(kind, "a", Resolved, messages)

Quiet == [calls |-> << >>, raises |-> None, messages |-> messages]

\* received_event(payload), with how the translation it awaits ends: the
\* dispatch calls it makes, what it raises and the message cache it leaves
ReceivedEvent(payload, ends) ==
    IF payload = "2" \/ payload = HelloFrame
    THEN Quiet
    ELSE LET event == Get(payload)
         IN  IF event = None
             THEN Quiet
             ELSE IF ends = "ok"
             THEN [calls |-> Translated(event).calls, raises |-> None,
                   messages |-> Translated(event).messages]
             ELSE [calls |-> <<Call("error", <<Wrap(ends)>>)>>,
                   raises |-> Wrap(ends), messages |-> messages]

\* variant: the loops are awaited one after the other, not gathered
AwaitingInTurn(s, at) ==
    /\ lpc[s] = at
    /\ \A t \in Slots \ {s} : lpc[t] \notin {"sleep", "build", "dead"}

\* loop s is suspended at its await `at`, and the event loop may resume it
\* whatever the other loops gathered with it are doing
Awaiting(s, at) == lpc[s] = at

\* else: next_backoff_time = 5
ResetBackoff(b) == Base

\* await ws.poll_event() returns: a text frame was received and handled;
\* then the else branch of the loop
PollReturns(s, frame) ==
    /\ Awaiting(s, "poll")
    /\ lws[s] \in open[s]
    /\ LET r == ReceivedEvent(frame, "ok")
       IN  /\ RoomFor(r.calls) /\ DoDispatchAll(r.calls)
           /\ polled' = [NoPoll EXCEPT !.polled = TRUE, !.s = s,
                                       !.frame = frame, !.raised = r.raises]
           /\ messages' = r.messages
    /\ backoff' = [backoff EXCEPT ![s] = ResetBackoff(@)]
    /\ failed' = [failed EXCEPT ![s] = 0]
    /\ trail' = [trail EXCEPT ![s] = << >>]
    /\ IF frame = HelloFrame
       THEN /\ hb[s].drivers < MaxDrivers
            /\ hb' = [hb EXCEPT ![s] = OnHello(@)]
       ELSE UNCHANGED hb
    /\ ran' = NoRun
    /\ UNCHANGED <<handlers, client, nTeams, cpc, ti, closed, ready, stored,
                   built, open, lpc, lws, contents, codec>>

\* what poll_event raises for an ERROR frame: msg.data
TransportError == "TransportError"

\* await ws.poll_event() raises something that is not the closure signal:
\* the transport's error of an ERROR frame, or the error of a translation,
\* which received_event publishes as `error` first; nothing in the loop
\* catches it
PollRaises(s, what) ==
    /\ Awaiting(s, "poll")
    /\ lws[s] \in open[s]
    /\ LET r == IF what = "transport"
                THEN [calls |-> << >>, raises |-> TransportError,
                      messages |-> messages]
                ELSE ReceivedEvent("ChatMessageCreated", what)
       IN  /\ RoomFor(r.calls) /\ DoDispatchAll(r.calls)
           /\ polled' = [NoPoll EXCEPT
                            !.polled = TRUE, !.s = s,
                            !.frame = IF what = "transport" THEN "ERROR"
                                      ELSE "ChatMessageCreated",
                            !.raised = r.raises]
    /\ lpc' = [lpc EXCEPT ![s] = "dead"]
    /\ cpc' = LoopRaised
    /\ ran' = NoRun
    /\ UNCHANGED <<handlers, client, nTeams, ti, closed, ready, stored, built,
                   open, lws, backoff, failed, trail, hb, messages,
                   contents, codec>>

\* await ws.poll_event() on an application frame of one of the kinds
\* followed in full, naming message `id`, in environment env: it returns,
\* and the loop's else branch runs, or it raises and the loop ends
PollRoutes(s, kind, id, env) ==
    /\ Awaiting(s, "poll")
    /\ lws[s] \in open[s]
    /\ LET r == Routed(kind, id, env, messages)
       IN  /\ RoomFor(r.calls) /\ DoDispatchAll(r.calls)
           /\ messages' = r.messages
           /\ polled' = [polled |-> TRUE, s |-> s, frame |-> kind,
                         raised |-> r.raises, id |-> id, env |-> env,
                         fetches |-> r.fetches, ctype |-> None]
           /\ IF r.raises = None
              THEN /\ backoff' = [backoff EXCEPT ![s] = ResetBackoff(@)]
                   /\ failed' = [failed EXCEPT ![s] = 0]
                   /\ trail' = [trail EXCEPT ![s] = << >>]
                   /\ UNCHANGED <<lpc, cpc>>
              ELSE /\ lpc' = [lpc EXCEPT ![s] = "dead"]
                   /\ cpc' = LoopRaised
                   /\ UNCHANGED <<backoff, failed, trail>>
    /\ ran' = NoRun
    /\ UNCHANGED <<handlers, client, nTeams, ti, closed, ready, stored, built,
                   open, lws, hb, contents, codec>>

(* ------------------- the content of team channels --------------------- *)
\* channel.type of the channels with content, and the ids of the content
ContentTypes == {"forum", "doc", "announcement"}
ContentIds == {"t1", "t2"}

\* what a content translation did: its dispatch calls, what it raised and
\* the content cache of the channel it leaves
Did3(calls, raises, cached) ==
    [calls |-> calls, raises |-> raises, contents |-> cached]

\* team = await self.client.getch_team(data['teamId']) in a try whose
\* except returns: a frame without teamId, or a team neither cached nor
\* fetched, ends the translation; so does a channel the team has not cached
ChannelOf(env) == env.team /\ (env.entity \/ env.fetch) /\ env.channel

\* TEAM_CHANNEL_CONTENT_CREATED: the content is put in the channel's cache
\* and published, as moved when the frame says contentMoved
CONTENT_CREATED(ctype, id, moved, env, cached) ==
    IF ~ChannelOf(env) THEN Did3(<< >>, None, cached)
    ELSE LET ev == CASE ctype = "forum" ->
                        IF moved THEN "forum_topic_move" ELSE "forum_topic_create"
                     [] ctype = "doc" ->
                        IF moved THEN "doc_move" ELSE "doc_create"
                     [] OTHER -> "announcement_create"
         IN  Did3(<<Call(ev, <<id>>)>>, None, cached \cup {<<ctype, id>>})

\* the doc and announcement branches of TEAM_CHANNEL_CONTENT_DELETED: the
\* raw event, then for cached content the resolved event and the pop
ContentDeleted(raw, resolved, ctype, id, cached) ==
    IF <<ctype, id>> \in cached
    THEN Did3(<<Call(raw, <<id>>), Call(resolved, <<id>>)>>, None,
              cached \ {<<ctype, id>>})
    ELSE Did3(<<Call(raw, <<id>>)>>, None, cached)

\* the forum branch: the raw event, content = channel.get_topic(...), then
\* `if topic is not None` on a name the function never binds
ForumDeleted(id, cached) ==
    Did3(<<Call("raw_forum_topic_delete", <<id>>)>>, "NameError", cached)

\* TEAM_CHANNEL_CONTENT_DELETED (deleted_by is the member or None, the
\* failure of its lookup swallowed)
CONTENT_DELETED(ctype, id, env, cached) ==
    IF ~ChannelOf(env) THEN Did3(<< >>, None, cached)
    ELSE CASE ctype = "forum" -> ForumDeleted(id, cached)
           [] ctype = "doc" ->
                ContentDeleted("raw_doc_delete", "doc_delete", ctype, id, cached)
           [] OTHER ->
                ContentDeleted("raw_announcement_delete", "announcement_delete",
                               ctype, id, cached)

ContentKinds == {"TEAM_CHANNEL_CONTENT_CREATED", "TEAM_CHANNEL_CONTENT_DELETED"}

\* what a content frame, which carries its teamId, may find with the API
\* out of reach: the team and the channel cached or not
ContentEnvs == {e \in Envs : e.team /\ ~e.fetch}

\* received_event on a content frame: an exception of the translation is
\* wrapped, published as `error` and raised
RoutedContent(kind, ctype, id, moved, env, cached) ==
    LET t == IF kind = "TEAM_CHANNEL_CONTENT_CREATED"
             THEN CONTENT_CREATED(ctype, id, moved, env, cached)
             ELSE CONTENT_DELETED(ctype, id, env, cached)
    IN  IF t.raises = None
        THEN t
        ELSE [t EXCEPT !.calls = @ \o <<Call("error", <<Wrap(t.raises)>>)>>,
                       !.raises = Wrap(t.raises)]

\* await ws.poll_event() on a content frame for content `id` of a channel
\* of type ctype: it returns, and the loop's else branch runs, or it raises
\* and the loop ends
PollContent(s, kind, ctype, id, moved, env) ==
    /\ Awaiting(s, "poll")
    /\ lws[s] \in open[s]
    /\ \E r \in {RoutedContent(kind, ctype, id, moved, env, contents)} :
           /\ RoomFor(r.calls) /\ DoDispatchAll(r.calls)
           /\ contents' = r.contents
           /\ polled' = [polled |-> TRUE, s |-> s, frame |-> kind,
                         raised |-> r.raises, id |-> id, env |-> env,
                         fetches |-> 0, ctype |-> ctype]
           /\ IF r.raises = None
              THEN /\ backoff' = [backoff EXCEPT ![s] = ResetBackoff(@)]
                   /\ failed' = [failed EXCEPT ![s] = 0]
                   /\ trail' = [trail EXCEPT ![s] = << >>]
                   /\ UNCHANGED <<lpc, cpc>>
              ELSE /\ lpc' = [lpc EXCEPT ![s] = "dead"]
                   /\ cpc' = LoopRaised
                   /\ UNCHANGED <<backoff, failed, trail>>
    /\ ran' = NoRun
    /\ UNCHANGED <<handlers, client, nTeams, ti, closed, ready, stored, built,
                   open, lws, hb, messages, codec>>

\* what the except WebSocketClosure branch does up to its first await:
\* the bot client without reconnect closes itself and breaks; every other
\* loop publishes the disconnect event and sleeps next_backoff_time
Reconnects == ~(client.cls = "Client" /\ ~client.reconnect)

\* variant: the branch sleeps and rebuilds without publishing
OnClosureSilent(s) ==
    [calls |-> << >>, lpc |-> "sleep",
     trail |-> <<Did("closure", None, TeamId(s), 0),
                 Did("sleep", None, TeamId(s), backoff[s])>>]

OnClosure(s) ==
    IF Reconnects
    THEN [calls |-> <<DisconnectCall(s)>>, lpc |-> "sleep",
          trail |-> <<Did("closure", None, TeamId(s), 0),
                      Did("publish", DisconnectCall(s).ev, TeamId(s), 0),
                      Did("sleep", None, TeamId(s), backoff[s])>>]
    ELSE [calls |-> << >>, lpc |-> "exit",
          trail |-> <<Did("closure", None, TeamId(s), 0),
                      Did("close", None, TeamId(s), 0)>>]

\* variant: the transport that reported the closure is still held open
AfterClosureStillOpen(o, g) == o

\* the sessions of a slot with an open transport, once session g has
\* received CLOSE, CLOSING or CLOSED
AfterClosure(o, g) == o \ {g}

\* await ws.poll_event() raises WebSocketClosure: the transport of the
\* loop's session is closed, or closes now
PollClosure(s) ==
    /\ Awaiting(s, "poll")
    /\ open' = [open EXCEPT ![s] = AfterClosure(@, lws[s])]
    /\ polled' = [NoPoll EXCEPT !.polled = TRUE, !.s = s, !.frame = "CLOSED",
                                !.raised = "WebSocketClosure"]
    /\ LET c == OnClosure(s)
       IN  /\ RoomFor(c.calls) /\ DoDispatchAll(c.calls)
           /\ lpc' = [lpc EXCEPT ![s] = c.lpc]
           /\ trail' = [trail EXCEPT ![s] = c.trail]
           /\ IF c.lpc = "exit"
              THEN /\ closed' = TRUE
                   /\ ready' = FALSE
                   /\ cpc' = IF cpc = "listening" THEN "returned" ELSE cpc
              ELSE UNCHANGED <<closed, ready, cpc>>
    /\ ran' = NoRun
    /\ UNCHANGED <<handlers, client, nTeams, ti, stored, built, lws, backoff,
                   failed, hb, messages,
                   contents, codec>>

\* await asyncio.sleep(next_backoff_time) is over: the build of a session
\* of the same kind starts, under wait_for(build, timeout=60)
SleepOver(s) ==
    /\ Awaiting(s, "sleep")
    /\ lpc' = [lpc EXCEPT ![s] = "build"]
    /\ trail' = [trail EXCEPT ![s] = Append(@, Did("build", None, TeamId(s),
                                                   ConnectTimeout))]
    /\ last' = NoCall
    /\ ran' = NoRun
    /\ polled' = NoPoll
    /\ UNCHANGED <<listeners, future, handlers, tasks>>
    /\ UNCHANGED <<client, nTeams, cpc, ti, closed, ready, stored, built, open,
                   lws, backoff, failed>>
    /\ UNCHANGED <<hb, messages, contents, codec>>

\* variant: the back-off doubles on a timeout
AfterTimeoutDoubles(b) == b * 2

\* except asyncio.TimeoutError: next_backoff_time += 5
AfterTimeout(b) == b + Base

\* ws = await asyncio.wait_for(build, timeout=60) in the loop: the new
\* session is polled next; on a timeout the old one is; a handshake error
\* object has no poll_event, and an exception of build leaves the loop
Rebuilt(s, outcome) ==
    /\ Awaiting(s, "build")
    /\ trail' = [trail EXCEPT ![s] = Append(@, Did(outcome, None, TeamId(s), 0))]
    /\ CASE outcome = "ok" ->
               /\ built[s] < MaxBuilt
               /\ built' = [built EXCEPT ![s] = @ + 1]
               /\ open' = [open EXCEPT ![s] = @ \cup {built[s] + 1}]
               /\ lws' = [lws EXCEPT ![s] = built[s] + 1]
               /\ lpc' = [lpc EXCEPT ![s] = "poll"]
               /\ UNCHANGED <<backoff, failed, cpc>>
         [] outcome = "timeout" ->
               /\ failed[s] < MaxFail
               /\ backoff' = [backoff EXCEPT ![s] = AfterTimeout(@)]
               /\ failed' = [failed EXCEPT ![s] = @ + 1]
               /\ lpc' = [lpc EXCEPT ![s] = "poll"]
               /\ UNCHANGED <<built, open, lws, cpc>>
         [] OTHER ->
               /\ failed' = [failed EXCEPT ![s] = @ + 1]
               /\ lpc' = [lpc EXCEPT ![s] = "dead"]
               /\ cpc' = LoopRaised
               /\ UNCHANGED <<built, open, lws, backoff>>
    /\ last' = NoCall
    /\ ran' = NoRun
    /\ polled' = NoPoll
    /\ hb' = IF outcome = "ok" THEN [hb EXCEPT ![s] = AfterBuild] ELSE hb
    /\ UNCHANGED <<listeners, future, handlers, tasks>>
    /\ UNCHANGED <<client, nTeams, ti, closed, ready, stored, messages,
                   contents, codec>>

\* close(): nothing if already closed; UserbotClient closes self.ws and
\* every team.ws with code 1000, each failure ignored (a ws whose transport
\* is closed fails in its logout send); Client names a `ws` it does not
\* have, which is ignored likewise; then _closed is set and _ready cleared
Close ==
    /\ ~closed
    /\ closed' = TRUE
    /\ ready' = FALSE
    /\ open' = IF client.cls = "UserbotClient"
               THEN [s \in Slots |-> open[s] \ {stored[s]}]
               ELSE open
    /\ last' = NoCall
    /\ ran' = NoRun
    /\ polled' = NoPoll
    /\ UNCHANGED <<listeners, future, handlers, tasks>>
    /\ UNCHANGED <<client, nTeams, cpc, ti, stored, built, lpc, lws, backoff,
                   failed, trail>>
    /\ UNCHANGED <<hb, messages, contents, codec>>

\* the session a slot's heartbeaters are bound to
Held(s) == IF lpc[s] = "off" THEN stored[s] ELSE lws[s]

\* how one pass of Heartbeater.run may go once the interval is over: the
\* send completes within the 10 s slice, does not, or raises; on a closed
\* transport send_str raises
BeatOutcomes(s) ==
    IF Held(s) \in open[s] THEN {"sent", "slow", "fails"} ELSE {"fails"}

\* one pass of the loop of Heartbeater.run: f.result(10) returns and the
\* loop goes on, latency left as it is; or it times out, and the warning's
\* self._main_thread_id, an attribute no code sets, raises AttributeError
\* into except Exception: self.stop(); or the send raises, likewise
AfterBeat(h, outcome) ==
    CASE outcome = "sent" -> [h EXCEPT !.beats = @ + 1]
      [] outcome = "slow" -> [h EXCEPT !.drivers = @ - 1, !.stopped = "slow send"]
      [] OTHER -> [h EXCEPT !.drivers = @ - 1, !.stopped = "send failed"]

Beat(s, outcome) ==
    /\ hb[s].drivers > 0
    /\ outcome \in BeatOutcomes(s)
    /\ outcome = "sent" => hb[s].beats < MaxBeats
    /\ hb' = [hb EXCEPT ![s] = AfterBeat(@, outcome)]
    /\ last' = NoCall
    /\ ran' = NoRun
    /\ polled' = NoPoll
    /\ UNCHANGED <<listeners, future, handlers, tasks>>
    /\ UNCHANGED <<client, nTeams, cpc, ti, closed, ready, stored, built, open,
                   lpc, lws, backoff, failed, trail, messages,
                   contents, codec>>

(* --------------------- one session, from inside ----------------------- *)
\* a JSON document of the wire: a bare object (n = 0), or a list of n
\* elements whose first is head and whose second, if any, is obj
Bare(o) == [n |-> 0, head |-> "", obj |-> o]
List1(h) == [n |-> 1, head |-> h, obj |-> EmptyObj]
List2(h, o) == [n |-> 2, head |-> h, obj |-> o]

\* a text frame is a sequence of characters: digits, and for the text of a
\* JSON document, which starts with a brace or a bracket, one item
Digits == {"0", "1", "2", "3", "4", "5", "6", "7", "8", "9"}
Digit(c) == [ch |-> c, doc |-> Bare(EmptyObj)]
Json(d) == [ch |-> "json", doc |-> d]
Chars(cs) == [i \in 1..Len(cs) |-> Digit(cs[i])]

\* HEARTBEAT_PAYLOAD = '2'
HEARTBEAT_PAYLOAD == Chars(<<"2">>)

\* send: if raw is False: payload = f'42{json.dumps(payload)}'
Encode(payload, raw) ==
    IF raw THEN payload ELSE Chars(<<"4", "2">>) \o <<Json(payload)>>

\* variant: only the heartbeat token counts as numeric
IsDigitHeartbeatOnly(text) == text = HEARTBEAT_PAYLOAD

\* payload.isdigit(): every character a digit, and at least one
IsDigit(text) ==
    /\ text # << >>
    /\ \A i \in 1..Len(text) : text[i].ch \in Digits

\* payload.replace(char, '', 1)
RECURSIVE ReplaceFirst(_, _)
ReplaceFirst(text, c) ==
    IF text = << >> THEN text
    ELSE IF Head(text).ch = c THEN Tail(text)
    ELSE <<Head(text)>> \o ReplaceFirst(Tail(text), c)

\* for char in payload: a digit is replaced away once, anything else breaks
RECURSIVE Strip(_, _, _)
Strip(orig, i, cur) ==
    IF i > Len(orig) THEN cur
    ELSE IF orig[i].ch \in Digits
    THEN Strip(orig, i + 1, ReplaceFirst(cur, orig[i].ch))
    ELSE cur

\* what a parse gives: an exception, or the data: a dict as received, or
\* {'type': ..., 'data': {...}} (wrapped)
Parsed(raises, wrapped, type, obj) ==
    [raises |-> raises, wrapped |-> wrapped, type |-> type, obj |-> obj]

\* _pretty_event: payload[1] of a list; a payload without (truthy) type as
\* it is; otherwise its type and, as data, every other key
PrettyEvent(d) ==
    IF d.n = 1
    THEN Parsed("IndexError", FALSE, "", EmptyObj)
    ELSE LET payload == d.obj
         IN  IF "type" \notin payload.keys \/ payload.type = ""
             THEN Parsed(None, FALSE, "", payload)
             ELSE Parsed(None, TRUE, payload.type,
                         [payload EXCEPT !.keys = @ \ {"type"}, !.type = ""])

\* _full_event_parse: strip, json.loads, _pretty_event
FullEventParse(text) ==
    LET rest == Strip(text, 1, text)
    IN  IF Len(rest) = 1 /\ rest[1].ch = "json"
        THEN PrettyEvent(rest[1].doc)
        ELSE Parsed("JSONDecodeError", FALSE, "", EmptyObj)

\* variant: the interval is taken in milliseconds
IntervalUnscaled(ping) == ping

\* interval=data['pingInterval'] / 1000
Interval(ping) == ping \div 1000

\* what received_event did: the session after it, how it classified the
\* frame, what it gave the router, what it raised, its dispatch calls and
\* the message cache it leaves
Received(c, class, kind, data, raises, calls, msgs) ==
    [c |-> c, class |-> class, kind |-> kind, data |-> data, raises |-> raises,
     calls |-> calls, messages |-> msgs]

RawReceive == Call("socket_raw_receive", << >>)
SocketResponse == Call("socket_response", << >>)

\* the hello branch: sid, upgrades, a Heartbeater of the interval, started
Hello(c, obj, msgs) ==
    IF "upgrades" \notin obj.keys
    THEN Received([c EXCEPT !.sid = obj.sid], None, None, EmptyObj, "KeyError",
                  <<RawReceive, SocketResponse>>, msgs)
    ELSE IF "pingInterval" \notin obj.keys
    THEN Received([c EXCEPT !.sid = obj.sid, !.upgrades = obj.upgrades],
                  None, None, EmptyObj, "KeyError",
                  <<RawReceive, SocketResponse>>, msgs)
    ELSE Received([c EXCEPT !.sid = obj.sid, !.upgrades = obj.upgrades,
                            !.interval = Interval(obj.pingInterval),
                            !.started = @ + 1],
                  "hello", None, EmptyObj, None,
                  <<RawReceive, SocketResponse>>, msgs)

\* the router branch: self._parsers.get(data['type'], data['data']), the
\* translation awaited, an exception of it wrapped, published and raised
ToRouter(c, data, msgs) ==
    IF ~data.wrapped
    THEN Received(c, None, None, EmptyObj, "KeyError",
                  <<RawReceive, SocketResponse>>, msgs)
    ELSE IF Get(data.type) = None
    THEN Received(c, "event", data.type, data.obj, None,
                  <<RawReceive, SocketResponse>>, msgs)
    ELSE LET r == Routed(data.type, data.obj.body, Resolved, msgs)
         IN  Received(c, "event", data.type, data.obj, r.raises,
                      <<RawReceive, SocketResponse>> \o r.calls, r.messages)

\* received_event(payload) on session c
ReceivedText(c, text, msgs) ==
    IF IsDigit(text)
    THEN Received(c, "ignored", None, EmptyObj, None, << >>, msgs)
    ELSE LET data == FullEventParse(text)
         IN  IF data.raises # None
             THEN Received(c, None, None, EmptyObj, data.raises,
                           <<RawReceive>>, msgs)
             ELSE IF ~data.wrapped /\ "sid" \in data.obj.keys
             THEN Hello(c, data.obj, msgs)
             ELSE ToRouter(c, data, msgs)

\* what the transport hands to poll_event: a TEXT frame, or CLOSED
Closed == [type |-> "CLOSED", data |-> << >>]
TextMsg(text) == [type |-> "TEXT", data |-> text]

\* poll_event: msg = await self.socket.receive()
PollEvent(c, msg, msgs) ==
    IF msg.type = "TEXT"
    THEN ReceivedText(c, msg.data, msgs)
    ELSE Received([c EXCEPT !.sock = "closed"], None, None, EmptyObj,
                  "WebSocketClosure", << >>, msgs)

\* the inputs: hello objects, application objects, each bare or second in
\* a list, the payloads the client sends, the numeric prefixes and frames
HelloObjs == {[EmptyObj EXCEPT !.keys = {"sid", "upgrades", "pingInterval"},
                               !.sid = "abc", !.upgrades = u,
                               !.pingInterval = p] :
                 u \in {<< >>, <<"websocket">>}, p \in {30000, 25000}}
AppObjs == {[EmptyObj EXCEPT !.keys = {"type", "body"}, !.type = t,
                             !.body = "a"] :
               t \in {"ChatMessageCreated", "ServerAddedKind"}}
Fields == [EmptyObj EXCEPT !.keys = {"body"}, !.body = "a"]
AppPayloads == {List2(e, Fields) : e \in {"ChatMessageCreated", "ServerAddedKind"}}
Logout == List1("logout")
InDocs == {Bare(o) : o \in HelloObjs \cup AppObjs}
             \cup {List2("0", o) : o \in HelloObjs \cup AppObjs}
Prefixes == {<< >>, <<"0">>, <<"4", "2">>, <<"4", "4">>}
Numeric == {Chars(<<"2">>), Chars(<<"3">>), Chars(<<"4", "0">>)}
InTexts == Numeric
             \cup {Chars(pre) \o <<Json(d)>> : pre \in Prefixes, d \in InDocs}
             \cup {Encode(p, FALSE) : p \in AppPayloads \cup {Logout}}
InMsgs == {Closed} \cup {TextMsg(t) : t \in InTexts}

ConnectOutcomes == {"ok", "WSServerHandshakeError", "ClientConnectorError"}

\* variant: the handshake error is raised
BuildHandshakeRaises(outcome) ==
    IF outcome = "ok" THEN [ret |-> "session", raised |-> None]
    ELSE [ret |-> None, raised |-> outcome]

\* socket = await client.http.ws_connect(...): the handshake error is
\* caught and returned, anything else is raised
BuildConnect(outcome) ==
    CASE outcome = "ok" -> [ret |-> "session", raised |-> None]
      [] outcome = "WSServerHandshakeError" -> [ret |-> "error", raised |-> None]
      [] OTHER -> [ret |-> None, raised |-> outcome]

SendFailure == "ConnectionResetError"

\* GuildedWebSocket.build: connect, ws.send('2', raw=True), one
\* ws.poll_event(), return ws; the session exists only if build returns it
BuildSession(outcome, sendOk, msg) ==
    /\ codec.sock = "none"
    /\ LET b == BuildConnect(outcome)
           ws == [NoSession EXCEPT !.sock = "open"]
           beat == Encode(HEARTBEAT_PAYLOAD, TRUE)
       IN  IF b.ret # "session"
           THEN /\ codec' = [NoSession EXCEPT
                               !.did = [NoOp EXCEPT !.op = "build", !.ret = b.ret,
                                                    !.raised = b.raised]]
                /\ DoDispatchAll(<< >>)
                /\ UNCHANGED messages
           ELSE IF ~sendOk
           THEN /\ codec' = [NoSession EXCEPT
                               !.did = [NoOp EXCEPT !.op = "build",
                                                    !.raised = SendFailure]]
                /\ DoDispatchAll(<<Call("socket_raw_send", << >>)>>)
                /\ UNCHANGED messages
           ELSE \E r \in {PollEvent(ws, msg, messages)} :
                /\ RoomFor(r.calls)
                /\ DoDispatchAll(<<Call("socket_raw_send", << >>)>> \o r.calls)
                /\ messages' = r.messages
                /\ codec' = [(IF r.raises = None THEN r.c ELSE NoSession) EXCEPT
                               !.did = [NoOp EXCEPT
                                          !.op = "build", !.text = msg.data,
                                          !.sent = <<beat>>, !.polls = 1,
                                          !.class = r.class, !.kind = r.kind,
                                          !.data = r.data,
                                          !.ret = IF r.raises = None
                                                  THEN "session" ELSE None,
                                          !.raised = r.raises]]
    /\ ran' = NoRun
    /\ polled' = NoPoll
    /\ UNCHANGED handlers
    /\ UNCHANGED <<client, nTeams, cpc, ti, closed, ready, stored, built, open,
                   lpc, lws, backoff, failed, trail, hb, contents>>

\* await ws.poll_event() on the built session
Receive(msg) ==
    /\ codec.sock = "open"
    /\ \E r \in {PollEvent(codec, msg, messages)} :
          /\ r.c.started <= MaxDrivers
          /\ RoomFor(r.calls) /\ DoDispatchAll(r.calls)
          /\ messages' = r.messages
          /\ codec' = [r.c EXCEPT
                         !.did = [NoOp EXCEPT
                                    !.op = "poll", !.text = msg.data,
                                    !.polls = 1, !.class = r.class,
                                    !.kind = r.kind, !.data = r.data,
                                    !.raised = r.raises]]
    /\ ran' = NoRun
    /\ polled' = NoPoll
    /\ UNCHANGED handlers
    /\ UNCHANGED <<client, nTeams, cpc, ti, closed, ready, stored, built, open,
                   lpc, lws, backoff, failed, trail, hb, contents>>

\* await ws.send(payload): the frame is published as socket_raw_send and
\* handed to the transport, which takes it or raises
SendPayload(payload, sendOk) ==
    /\ codec.sock # "none"
    /\ codec.sock = "closed" => ~sendOk
    /\ DoDispatchAll(<<Call("socket_raw_send", << >>)>>)
    /\ codec' = [codec EXCEPT
                   !.did = [NoOp EXCEPT
                              !.op = "send",
                              !.sent = IF sendOk THEN <<Encode(payload, FALSE)>>
                                       ELSE << >>,
                              !.raised = IF sendOk THEN None ELSE SendFailure]]
    /\ ran' = NoRun
    /\ polled' = NoPoll
    /\ UNCHANGED handlers
    /\ UNCHANGED <<client, nTeams, cpc, ti, closed, ready, stored, built, open,
                   lpc, lws, backoff, failed, trail, hb, messages, contents>>

CloseCodes == {1000, 1001}

\* close(code): self._close_code = code; await self.send(['logout']);
\* await self.socket.close(code=code)
CloseOf(c, code, sendOk) ==
    IF sendOk
    THEN [c EXCEPT !.close_code = code, !.sock = "closed",
                   !.did = [NoOp EXCEPT !.op = "close",
                                        !.sent = <<Encode(Logout, FALSE)>>,
                                        !.closed_with = code]]
    ELSE [c EXCEPT !.close_code = code,
                   !.did = [NoOp EXCEPT !.op = "close", !.raised = SendFailure]]

CloseSession(code, sendOk) ==
    /\ codec.sock # "none"
    /\ codec.sock = "closed" => ~sendOk
    /\ DoDispatchAll(<<Call("socket_raw_send", << >>)>>)
    /\ codec' = CloseOf(codec, code, sendOk)
    /\ ran' = NoRun
    /\ polled' = NoPoll
    /\ UNCHANGED handlers
    /\ UNCHANGED <<client, nTeams, cpc, ti, closed, ready, stored, built, open,
                   lpc, lws, backoff, failed, trail, hb, messages, contents>>

\* a client that was constructed and logged in, and has not connected
Clients == {[cls |-> "UserbotClient", reconnect |-> TRUE],
            [cls |-> "Client", reconnect |-> TRUE],
            [cls |-> "Client", reconnect |-> FALSE]}

SInit ==
    /\ DInit
    /\ client \in Clients
    /\ nTeams \in {0} \cup Teams
    /\ client.cls = "Client" => nTeams = 0
    /\ cpc = "idle"
    /\ ti = 0
    /\ closed = FALSE
    /\ ready = FALSE
    /\ stored = [s \in Slots |-> 0]
    /\ built = [s \in Slots |-> 0]
    /\ open = [s \in Slots |-> {}]
    /\ lpc = [s \in Slots |-> "off"]
    /\ lws = [s \in Slots |-> 0]
    /\ backoff = [s \in Slots |-> Base]
    /\ failed = [s \in Slots |-> 0]
    /\ trail = [s \in Slots |-> << >>]
    /\ polled = NoPoll
    /\ hb = [s \in Slots |-> NoDriver]
    /\ messages = {}
    /\ contents = {}
    /\ codec = NoSession

\* a client that never connects
SIdle ==
    /\ SInit
    /\ client = [cls |-> "UserbotClient", reconnect |-> TRUE]
    /\ nTeams = 0

\* the waiter registry alone: wait_for, timeouts and dispatch, no handler
WNext ==
    \/ \E ev \in EventNames, p \in Preds : WaitFor(ev, p)
    \/ \E w \in WaiterIds : Timeout(w)
    \/ \E ev \in EventNames, args \in ArgTuples : Dispatch(ev, args)

SpecWaiters == SIdle /\ [][WNext]_vars

\* the registry used with names whose lower-case forms differ: every
\* waiter under a key was registered with the one name of that key
CaseNames == {"Message", "typing"}

CNext ==
    \/ \E ev \in CaseNames, p \in Preds : WaitFor(ev, p)
    \/ \E w \in WaiterIds : Timeout(w)
    \/ \E ev \in CaseNames, args \in ArgTuples : Dispatch(ev, args)

SpecCase == SIdle /\ [][CNext]_vars

\* waiters and persistent handlers together, on one event and on `error`
MaxHWaiters == 2
HArgs == {<<"a">>, <<"b">>, <<"a", "b">>}

HNext ==
    \/ \E p \in Preds : Cardinality(Born) < MaxHWaiters /\ WaitFor("message", p)
    \/ \E w \in WaiterIds : Timeout(w)
    \/ \E ev \in {"message", "error"}, args \in HArgs : Dispatch(ev, args)
    \/ \E ev \in {"message", "error"}, k \in HandlerKinds : Register(ev, k)
    \/ RunTask

SpecHandlers == SIdle /\ [][HNext]_vars

\* connect, the receive loops of the main session and of a team's, and
\* close; no handler but on_error is registered
SNext ==
    \/ ConnectStart
    \/ \E o \in BuildOutcomes : MainBuilt(o)
    \/ \E o \in BuildOutcomes : TeamBuilt(o)
    \/ \E s \in Slots, f \in TextFrames : PollReturns(s, f)
    \/ \E s \in Slots, w \in {"transport"} \cup TranslationFaults : PollRaises(s, w)
    \/ \E s \in Slots : PollClosure(s)
    \/ \E s \in Slots : SleepOver(s)
    \/ \E s \in Slots, o \in BuildOutcomes : Rebuilt(s, o)
    \/ Close
    \/ RunTask

SpecSessions == SInit /\ [][SNext]_vars

\* a client without teams: its receive loop publishing `message` to a
\* handler and to waiters
MaxSWaiters == 1

RInit == SInit /\ nTeams = 0

RNext ==
    \/ ConnectStart
    \/ \E o \in BuildOutcomes : MainBuilt(o)
    \/ \E f \in TextFrames : PollReturns(0, f)
    \/ \E w \in {"transport"} \cup TranslationFaults : PollRaises(0, w)
    \/ PollClosure(0)
    \/ SleepOver(0)
    \/ \E o \in BuildOutcomes : Rebuilt(0, o)
    \/ Close
    \/ \E k \in HandlerKinds : Register("message", k)
    \/ RunTask
    \/ \E p \in Preds : Cardinality(Born) < MaxSWaiters /\ WaitFor("message", p)
    \/ \E w \in WaiterIds : Timeout(w)

SpecReceive == RInit /\ [][RNext]_vars

\* one session of a client without teams and its heartbeaters
BNext ==
    \/ ConnectStart
    \/ \E o \in BuildOutcomes : MainBuilt(o)
    \/ \E f \in TextFrames \cup {HelloFrame} : PollReturns(0, f)
    \/ PollClosure(0)
    \/ SleepOver(0)
    \/ \E o \in BuildOutcomes : Rebuilt(0, o)
    \/ Close
    \/ RunTask
    \/ \E o \in {"sent", "slow", "fails"} : Beat(0, o)

SpecHeartbeat == RInit /\ [][BNext]_vars

\* the router on the session of a client without teams
TNext ==
    \/ ConnectStart
    \/ \E o \in BuildOutcomes : MainBuilt(o)
    \/ \E k \in RoutedKinds, id \in MsgIds, env \in Envs : PollRoutes(0, k, id, env)
    \/ RunTask

SpecRouter == RInit /\ [][TNext]_vars

\* the content translations on the session of a client without teams
KNext ==
    \/ ConnectStart
    \/ \E o \in BuildOutcomes : MainBuilt(o)
    \/ \E t \in ContentTypes, id \in ContentIds, moved \in BOOLEAN,
          env \in ContentEnvs :
          PollContent(0, "TEAM_CHANNEL_CONTENT_CREATED", t, id, moved, env)
    \/ \E t \in ContentTypes, id \in ContentIds, env \in ContentEnvs :
          PollContent(0, "TEAM_CHANNEL_CONTENT_DELETED", t, id, FALSE, env)
    \/ RunTask

SpecContent == RInit /\ [][KNext]_vars

\* one session built, polled, sent on and closed
ONext ==
    \/ \E o \in ConnectOutcomes, ok \in BOOLEAN, m \in InMsgs : BuildSession(o, ok, m)
    \/ \E m \in InMsgs : Receive(m)
    \/ \E p \in AppPayloads, ok \in BOOLEAN : SendPayload(p, ok)
    \/ \E code \in CloseCodes, ok \in BOOLEAN : CloseSession(code, ok)

SpecCodec == SIdle /\ [][ONext]_vars

(* ====================== properties of the engine ====================== *)
\* A step is the return of a dispatch call exactly when last'.called holds:
\* dispatch records its event and arguments there, and every other action
\* resets the record.
\* the waiter ids of a list of (future, check) pairs, in list order
Ids(ls) == [i \in 1..Len(ls) |-> ls[i].w]

Registered(ev) == {listeners[ev][i].w : i \in 1..Len(listeners[ev])}

\* the waiters of the log entries with a given op, in log order
Logged(log, op) == Ids(SelectSeq(log, LAMBDA e : e.op = op))

\* a (future, check) pair whose future is pending and whose check returns
\* true / false / raises on args
PendingWith(l, args, outcomes) ==
    /\ future[l.w].st = "pending"
    /\ Eval(l.check, args) \in outcomes

Matches(l, args) == PendingWith(l, args, {"true"})

\* the names of the exceptions a predicate may raise
Raised == {"TypeError"}

\* C1: a dispatch(E, args) resolves, in that call, every waiter under E
\* whose future is pending and whose predicate is true on args, removes
\* them from the registry, and resolves them in registration order.
C1_Step(ev, args) ==
    LET m == SelectSeq(listeners[ev], LAMBDA l : Matches(l, args))
    IN  /\ \A i \in 1..Len(m) :
              /\ future'[m[i].w].st = "result"
              /\ m[i].w \notin {listeners'[ev][k].w : k \in 1..Len(listeners'[ev])}
        /\ Logged(last'.log, "result") = Ids(m)

C1_MatchingWaitersResolvedInOrder ==
    [][last'.called => C1_Step(last'.event, last'.args)]_vars

\* two waiters resolved by one dispatch call
C1_Witness ==
    /\ last.called
    /\ Len(Logged(last.log, "result")) >= 2

\* C2: the value of the resolved future depends only on the number of
\* arguments: none gives None, one gives the argument, more give the tuple.
C2_Step(ev, args) ==
    \A i \in 1..Len(listeners[ev]) :
        Matches(listeners[ev][i], args) =>
            LET val == future'[listeners[ev][i].w].val
            IN  /\ Len(args) = 0 => val.kind = "none" /\ val.v = << >>
                /\ Len(args) = 1 => val.kind = "arg" /\ val.v = <<args[1]>>
                /\ Len(args) >= 2 => val.kind = "tuple" /\ val.v = args

C2_ResultByArity ==
    [][last'.called => C2_Step(last'.event, last'.args)]_vars

\* three waiters resolved with None, with one argument and with a tuple
C2_Witness ==
    /\ \E w \in WaiterIds : future[w].st = "result" /\ future[w].val.kind = "none"
    /\ \E w \in WaiterIds : future[w].st = "result" /\ future[w].val.kind = "arg"
    /\ \E w \in WaiterIds : future[w].st = "result" /\ future[w].val.kind = "tuple"

Done(f) == f.st \in {"result", "exception"}

\* C3: a future is given a result or an exception at most once: once it
\* holds one, no later step changes it, and no dispatch raises for having
\* tried to set it again.
C3_ResolvedAtMostOnce ==
    [][/\ \A w \in WaiterIds : Done(future[w]) => future'[w] = future[w]
       /\ last'.raised = None]_vars

\* a waiter on "message" holds a result and a later dispatch of "message",
\* which its predicate meets too, has just returned
C3_Witness ==
    /\ last.called /\ last.event = "message" /\ Len(last.args) = 1
    /\ \E w \in WaiterIds :
          /\ future[w].st = "result"
          /\ future[w].val.kind = "tuple"
          /\ w \notin Registered("message")

\* C4: a waiter whose predicate raises gets exactly that exception and is
\* removed; dispatch does not raise; the other waiters of the event are
\* treated as if it were absent: resolved if they match, kept if they do
\* not, pruned if they were cancelled.
C4_Step(ev, args) ==
    /\ last'.raised = None
    /\ \A i \in 1..Len(listeners[ev]) :
          LET l == listeners[ev][i]
              exc == Eval(l.check, args)
              after == {listeners'[ev][k].w : k \in 1..Len(listeners'[ev])}
          IN  /\ PendingWith(l, args, Raised) =>
                    /\ future'[l.w] = [st |-> "exception", val |-> ExcVal(exc)]
                    /\ l.w \notin after
              /\ PendingWith(l, args, {"true"}) =>
                    future'[l.w].st = "result" /\ l.w \notin after
              /\ PendingWith(l, args, {"false"}) =>
                    future'[l.w].st = "pending" /\ l.w \in after
              /\ future[l.w].st = "cancelled" =>
                    future'[l.w].st = "cancelled" /\ l.w \notin after

C4_Raises(ev, args) ==
    \E i \in 1..Len(listeners[ev]) :
        PendingWith(listeners[ev][i], args, Raised)

C4_RaisingPredicateIsolated ==
    [][(last'.called /\ C4_Raises(last'.event, last'.args))
          => C4_Step(last'.event, last'.args)]_vars

\* in one dispatch call an earlier waiter was failed by its predicate and a
\* later one was resolved
C4_Witness ==
    /\ last.called
    /\ \E i, j \in 1..Len(last.log) :
          i < j /\ last.log[i].op = "exception" /\ last.log[j].op = "result"

C5_Step(ev, args) ==
    \A i \in 1..Len(listeners[ev]) :
        LET w == listeners[ev][i].w
        IN  future[w].st = "cancelled" =>
               /\ w \notin {listeners'[ev][k].w : k \in 1..Len(listeners'[ev])}
               /\ \A k \in 1..Len(last'.log) :
                     last'.log[k].w = w => last'.log[k].op = "prune"

C7_Step(ev, args) ==
    Schedules(ev) =>
        /\ Len(last'.log) = Len(listeners[ev]) + 1
        /\ \A i \in 1..Len(listeners[ev]) :
              /\ last'.log[i].w = listeners[ev][i].w
              /\ last'.log[i].op \in {"result", "exception", "skip", "prune"}
        /\ last'.log[Len(last'.log)].op = "schedule"
        /\ tasks' = Append(tasks, [method |-> Method(ev),
                                   coro |-> handlers[Method(ev)], args |-> args])
        /\ ran' = NoRun
        /\ polled' = NoPoll

C7_HandlerScheduledAfterWaiters ==
    [][last'.called => C7_Step(last'.event, last'.args)]_vars

\* a dispatch resolved a waiter, left or failed another, then scheduled
C7_Witness ==
    /\ last.called
    /\ Len(last.log) = 3
    /\ last.log[1].op = "result"
    /\ last.log[3].op = "schedule"
    /\ tasks # << >>

(* ================ properties of connect and its loops ================= *)
\* loop s handles a closure signal in this step
Closure(s) ==
    polled'.polled /\ polled'.s = s /\ polled'.raised = "WebSocketClosure"

\* loop s gets a new session from its rebuild in this step
Reconnected(s) == lpc[s] = "build" /\ lpc'[s] = "poll" /\ lws'[s] # lws[s]

Running(s) == lpc[s] \in {"poll", "sleep", "build"}

\* C6: when a handler on_E raises, the dispatch that scheduled it has
\* returned normally with every matching waiter resolved, the failure goes
\* to on_error(E, *args) and does not leave the task, and the receive loop
\* that dispatched keeps polling.
C6_Step ==
    /\ last'.called => last'.raised = None
    /\ (last'.called /\ last'.event = "message") =>
          /\ \A i \in 1..Len(listeners["message"]) :
                Matches(listeners["message"][i], last'.args)
                   => future'[listeners["message"][i].w].st = "result"
          /\ Schedules("message") => tasks' # tasks /\ ran' = NoRun
          /\ \A s \in Slots : lpc[s] = "poll" => lpc'[s] = "poll"
    /\ (ran'.run /\ ran'.raised) =>
          /\ ran'.on_error = <<ran'.method>> \o ran'.args
          /\ ran'.leaves = None
          /\ ~last'.called
          /\ lpc' = lpc /\ cpc' = cpc /\ future' = future

C6_HandlerFailureIsolated == [][C6_Step]_vars

\* on_message raised in its task while the loop that published the event,
\* which also resolved a waiter, is polling again
C6_Witness ==
    /\ ran.run /\ ran.raised /\ ran.method = "on_message"
    /\ ran.on_error = <<"on_message", "a">>
    /\ lpc[0] = "poll"
    /\ \E w \in WaiterIds : future[w].st = "result"

\* C8: in every running receive loop the back-off is Base * (1 + the
\* rebuild attempts that failed since the loop's last successful poll), and
\* that is what the loop sleeps before its next attempt: 5, 10, 15, ...;
\* a successful poll brings it back to Base.
C8_BackoffIsLinear ==
    \A s \in Slots :
        Running(s) =>
            /\ backoff[s] = Base * (1 + failed[s])
            /\ lpc[s] = "sleep" =>
                  /\ trail[s][Len(trail[s])].op = "sleep"
                  /\ trail[s][Len(trail[s])].n = Base * (1 + failed[s])
            /\ trail[s] = << >> => backoff[s] = Base

\* a loop sleeps 15 seconds before its third attempt in a row
C8_Witness ==
    \E s \in Slots :
        /\ lpc[s] = "sleep"
        /\ failed[s] = 2
        /\ trail[s][Len(trail[s])] = Did("sleep", None, TeamId(s), 15)

\* what a loop does on a closure signal, in order
Recovery(s, n) ==
    <<Did("closure", None, TeamId(s), 0),
      Did("publish", DisconnectCall(s).ev, TeamId(s), 0),
      Did("sleep", None, TeamId(s), n),
      Did("build", None, TeamId(s), ConnectTimeout)>>

C9_Recovers(s) ==
    /\ Closure(s) =>
          /\ last'.called
          /\ last'.event = DisconnectCall(s).ev
          /\ last'.args = DisconnectCall(s).args
          /\ lpc'[s] = "sleep"
          /\ trail'[s] = SubSeq(Recovery(s, backoff[s]), 1, 3)
    /\ (lpc'[s] = "build" /\ lpc[s] # "build") =>
          /\ lpc[s] = "sleep"
          /\ trail'[s] = Recovery(s, backoff[s])

C10_ConnectPublishedOnReconnect ==
    [][\A s \in Slots :
          Reconnected(s) => last'.called /\ last'.event = ConnectEvent(s)]_vars

\* the events published by the dispatch calls of this step
Published(ev) == \E i \in 1..Len(last'.events) : last'.events[i] = ev

Building == {"main_build", "team_build"}

\* C11: whatever the outcome of a loop's rebuild after a closure, the
\* loop goes on (polling, or towards another wait and rebuild) and nothing
\* is raised out of connect.
C11_ClosureAlwaysRetried ==
    [][\A s \in Slots :
          (lpc[s] = "build" /\ lpc'[s] # "build")
             => lpc'[s] = "poll" /\ cpc' = cpc]_vars

\* C12: a transport error raised by poll_event in a receive loop leaves
\* the loop running (towards a back-off wait and rebuild) and connect
\* undisturbed.
C12_TransportFaultRecovered ==
    [][(polled'.polled /\ polled'.raised = TransportError)
          => /\ lpc'[polled'.s] \in {"poll", "sleep", "build"}
             /\ cpc' = cpc]_vars

\* C13: while a loop is in its back-off wait or its rebuild, or has
\* failed, every other loop with a live session can still receive and
\* route a frame, and a loop's poll changes nothing of another loop.
C13_Others(s) ==
    \A t \in Slots \ {s} :
        (lpc[t] = "poll" /\ lws[t] \in open[t])
           => \A f \in TextFrames : ENABLED PollReturns(t, f)

C13_LoopsIndependent ==
    /\ [](\A s \in Slots : lpc[s] \in {"sleep", "build", "dead"} => C13_Others(s))
    /\ [][polled'.polled =>
             \A s \in Slots \ {polled'.s} :
                 /\ lpc'[s] = lpc[s] /\ lws'[s] = lws[s]
                 /\ backoff'[s] = backoff[s] /\ trail'[s] = trail[s]]_vars

\* the team's loop routed an application event after the main loop failed
C13_Witness ==
    /\ lpc[0] = "dead"
    /\ lpc[1] = "poll"
    /\ polled.polled /\ polled.s = 1 /\ polled.frame = "ChatMessageCreated"
    /\ last.called /\ last.event = "message"

\* C14: when the initial build of the main session fails, connect
\* publishes one `error` and stops, with nothing stored, neither connect
\* nor ready published, the gate clear and no loop started.
C14_MainBuildFailurePublished ==
    [][(cpc = "main_build" /\ cpc' \in {"returned", "raised"})
          => /\ last'.called /\ last'.events = <<"error">>
             /\ stored'[0] = 0
             /\ ~ready'
             /\ \A s \in Slots : lpc'[s] = "off"]_vars

\* C15: connect is published in the step that stores the main session and
\* before any team session is built; the gate is set and ready published
\* together, once, after the last team build attempt and before any loop
\* polls.
C15_Step ==
    /\ Published("connect") =>
          /\ cpc = "main_build"
          /\ last'.events[1] = "connect"
          /\ stored[0] = 0 /\ stored'[0] # 0
          /\ \A t \in Teams : built[t] = 0
    /\ Published("ready") <=> (ready' /\ ~ready)
    /\ Published("ready") =>
          /\ last'.event = "ready"
          /\ Cardinality({i \in 1..Len(last'.events) :
                             last'.events[i] = "ready"}) = 1
          /\ cpc \in Building /\ cpc' = "listening"
          /\ cpc = "main_build" => nTeams = 0
          /\ cpc = "team_build" => ti = nTeams
          /\ \A s \in Slots : lpc[s] = "off"
    /\ cpc \notin Building \cup {"idle"} => cpc' \notin Building \cup {"idle"}
    /\ polled'.polled => ready \/ closed

C15_ConnectThenReadyOnce == [][C15_Step]_vars

\* the gate was set and ready published right after the team's session
C15_Witness ==
    /\ ready
    /\ last.called /\ last.events = <<"team_connect", "ready">>
    /\ stored[0] # 0 /\ stored[1] # 0
    /\ lpc[0] = "poll" /\ lpc[1] = "poll"

\* C16: when the build of a team's session fails (a connect error
\* returned, or the timeout), the main session stays stored, the next
\* team is built or, after the last, the gate is set, ready published and
\* the main session polled.
C16_TeamFailed ==
    /\ cpc = "team_build"
    /\ built'[ti] = 0
    /\ cpc' # cpc \/ ti' # ti

C16_TeamFailureTolerated ==
    [][C16_TeamFailed =>
          /\ stored'[0] # 0
          /\ ti < nTeams => cpc' = "team_build" /\ ti' = ti + 1
          /\ ti = nTeams =>
                /\ ready' /\ Published("ready")
                /\ cpc' = "listening"
                /\ lpc'[0] = "poll"]_vars

\* C17: a close after a successful connect leaves no session open, marks
\* the client closed and clears the gate.
C17_CloseClosesEverySession ==
    [][(~closed /\ closed' /\ built[0] > 0)
          => /\ \A s \in Slots : open'[s] = {}
             /\ ~ready']_vars

\* C18: a slot never has two sessions with an open transport, and the
\* session a loop polls is the only one its slot may have open: the one
\* it replaced was closed before the rebuild started.
C18_OneSessionPerSlot ==
    \A s \in Slots :
        /\ Cardinality(open[s]) <= 1
        /\ lpc[s] \in {"sleep", "build"} => open[s] = {}
        /\ lpc[s] = "poll" => open[s] \subseteq {lws[s]}

\* a loop polls the session it rebuilt, the only one open for its slot
C18_Witness ==
    \E s \in Slots :
        /\ lpc[s] = "poll"
        /\ built[s] = 2 /\ lws[s] = 2
        /\ open[s] = {2}

\* C19: an exception of a translation is published once as `error`, in
\* the library's error type (wrapped unless it already is one), and the
\* same error is raised to the caller of poll_event.
C19_TranslationErrorBothPaths ==
    [][(polled'.polled /\ polled'.frame \in KnownKinds
           /\ polled'.raised # None)
          => /\ polled'.raised \in {"GuildedException",
                                    "GuildedException(KeyError)"}
             /\ last'.called
             /\ last'.events = <<"error">>
             /\ last'.args = <<polled'.raised>>
             /\ lpc[polled'.s] = "poll" /\ lpc'[polled'.s] = "dead"]_vars

\* a KeyError of a translation was published wrapped and raised wrapped
C19_Witness ==
    /\ polled.polled /\ polled.raised = "GuildedException(KeyError)"
    /\ last.called /\ last.event = "error"
    /\ last.args = <<"GuildedException(KeyError)">>

C26_NoRebuildOnceClosed ==
    [][closed =>
          \A s \in Slots :
              /\ ~(Closure(s) /\ lpc'[s] = "sleep")
              /\ ~(lpc[s] = "sleep" /\ lpc'[s] = "build")
              /\ ~Reconnected(s)]_vars

\* C27: the session the client exposes for a slot (self.ws, team.ws) is
\* the one the slot's loop polls, after a reconnect too.
C27_ExposedSessionIsPolled ==
    \A s \in Slots : lpc[s] = "poll" => stored[s] = lws[s]

\* C25: a session's latency is infinite until its heartbeater has
\* completed a heartbeat, and the last round-trip from then on.
C25_LatencyTracksHeartbeat ==
    \A s \in Slots :
        /\ hb[s].beats = 0 => hb[s].latency = Inf
        /\ hb[s].beats > 0 => hb[s].latency # Inf

\* C28: whatever frames a session receives, at most one heartbeater runs
\* for it.
C28_OneHeartbeaterPerSession == \A s \in Slots : hb[s].drivers <= 1

\* C29: no heartbeater runs for a session whose transport is closed.
C29_HeartbeaterStoppedOnClose ==
    \A s \in Slots :
        (Held(s) # 0 /\ Held(s) \notin open[s]) => hb[s].drivers = 0

\* C30: a heartbeater stops because its send failed, never because the
\* send was slow.
C30_SlowSendKeepsHeartbeater ==
    \A s \in Slots : hb[s].stopped # "slow send"

(* ------------------------ properties of the router -------------------- *)
\* poll_event has just ended on a frame of kind `kind` naming a message
RoutedStep(kind) ==
    polled'.polled /\ polled'.frame = kind /\ polled'.id \in MsgIds

\* the kinds with a raw and a resolved form, and the events of each form
RawResolvedKinds == {"ChatMessageDeleted", "ChatMessageUpdated",
                     "ChatPinnedMessageCreated", "ChatPinnedMessageDeleted"}

RawEvents(kind) ==
    CASE kind = "ChatMessageDeleted" -> {"raw_message_delete"}
      [] kind = "ChatMessageUpdated" -> {"raw_message_edit"}
      [] kind = "ChatPinnedMessageCreated" ->
            {"raw_team_message_pinned", "raw_dm_message_pinned"}
      [] OTHER -> {"raw_team_message_unpinned", "raw_dm_message_unpinned"}

ResolvedEvents(kind) ==
    CASE kind = "ChatMessageDeleted" -> {"message_delete"}
      [] kind = "ChatMessageUpdated" -> {"message_edit"}
      [] kind = "ChatPinnedMessageCreated" ->
            {"team_message_pinned", "dm_message_pinned"}
      [] OTHER -> {"team_message_unpinned", "dm_message_unpinned"}

\* C21: a frame of a kind with a raw and a resolved form publishes the raw
\* event first, on every occurrence, and publishes the resolved event,
\* after it, exactly when the message it names is in the cache.
C21_RawAlwaysResolvedIffCached ==
    [][\A k \in RawResolvedKinds :
          RoutedStep(k) =>
              LET ev == last'.events
                  at == {i \in 1..Len(ev) : ev[i] \in ResolvedEvents(k)}
              IN  /\ Len(ev) >= 1 /\ ev[1] \in RawEvents(k)
                  /\ \A i \in at : i > 1
                  /\ (polled'.id \in messages) <=> (at # {})
                  /\ Cardinality(at) <= 1
                  /\ polled'.raised = None]_vars

\* an edit of a cached message has published raw_message_edit, then
\* message_edit
C21_Witness ==
    /\ polled.polled /\ polled.frame = "ChatMessageUpdated"
    /\ polled.id \in messages
    /\ last.events = <<"raw_message_edit", "message_edit">>

\* C22: a translation whose entity is not cached and whose fall-back
\* request fails skips the event: nothing resolved and no `error` is
\* published, and poll_event raises nothing.
C22_FetchFailureSkipsEvent ==
    [][\A k \in RoutedKinds :
          (RoutedStep(k) /\ polled'.fetches > 0 /\ ~polled'.env.fetch)
              => /\ polled'.raised = None
                 /\ ~Published("error")
                 /\ ~Published("message")]_vars

\* C23: a ChatMessageCreated frame with a teamId whose channel is cached
\* makes no request, puts the message in the cache and publishes
\* `message` exactly once, with that message.
C23_CachedChannelMessage ==
    [][(RoutedStep("ChatMessageCreated") /\ polled'.env.team
                                         /\ polled'.env.channel)
          => /\ polled'.fetches = 0
             /\ polled'.id \in messages'
             /\ last'.events = <<"message">>
             /\ last'.args = <<polled'.id>>
             /\ polled'.raised = None]_vars

\* a message of a cached channel of a team, with a user that is not cached
\* and an API that is down, was published and is in the cache
C23_Witness ==
    /\ polled.polled /\ polled.frame = "ChatMessageCreated"
    /\ polled.env.team /\ polled.env.channel
    /\ ~polled.env.entity /\ ~polled.env.fetch
    /\ polled.id = "b" /\ "b" \in messages
    /\ last.events = <<"message">>

\* C24: a ChatMessageDeleted frame for a cached message takes the message
\* out of the cache, so that a second one for the same id publishes the
\* raw event alone.
C24_DeletedMessageEvicted ==
    [][(RoutedStep("ChatMessageDeleted") /\ polled'.id \in messages)
          => polled'.id \notin messages']_vars

(* ------------------- further properties of the engine ----------------- *)
\* C31: wait_for and dispatch use the same key: a pending waiter
\* registered with wait_for(E) and the default predicate is resolved by
\* the next dispatch(E), whatever the letter case of E.
C31_SameKeyForWaitAndDispatch ==
    [][\A E \in CaseNames :
          (last'.called /\ last'.event = E)
             => \A i \in 1..Len(listeners[Lower(E)]) :
                   LET l == listeners[Lower(E)][i]
                   IN  (l.check = "always" /\ future[l.w].st = "pending")
                          => future'[l.w].st = "result"]_vars

\* a waiter of the dispatched key that is pending and whose predicate
\* returns false on args
C39_Stays(l, args) == PendingWith(l, args, {"false"})

\* C39: dispatch(E, args) leaves the waiters it does not resolve as they
\* are: those under E whose predicate returns false stay registered and
\* pending in their order, and those under any other key are not
\* evaluated, resolved or removed.
C39_UnresolvedWaitersUntouched ==
    [][last'.called =>
          LET ev == last'.event
              args == last'.args
              keep == SelectSeq(listeners[ev], LAMBDA l : C39_Stays(l, args))
          IN  /\ SelectSeq(listeners'[ev], LAMBDA l : C39_Stays(l, args)) = keep
              /\ \A i \in 1..Len(keep) : future'[keep[i].w] = future[keep[i].w]
              /\ \A k \in AllEvents \ {ev} :
                    /\ listeners'[k] = listeners[k]
                    /\ \A i \in 1..Len(listeners[k]) :
                          LET w == listeners[k][i].w
                          IN  /\ future'[w] = future[w]
                              /\ \A n \in 1..Len(last'.log) :
                                    last'.log[n].w # w]_vars

\* a dispatch has resolved a waiter, and a waiter of the same key whose
\* predicate returned false and a waiter of another key are still there
C39_Witness ==
    /\ last.called
    /\ \E n \in 1..Len(last.log) : last.log[n].op = "result"
    /\ \E i \in 1..Len(listeners[last.event]) :
          /\ future[listeners[last.event][i].w].st = "pending"
          /\ Eval(listeners[last.event][i].check, last.args) = "false"
    /\ \E k \in AllEvents \ {last.event} : listeners[k] # << >>

(* ------------------- further properties of the loops ------------------ *)
\* C32: one outage of a session publishes its disconnect event once: a
\* closure met after a rebuild attempt of the outage has timed out
\* publishes no further one.
C32_OneDisconnectPerOutage ==
    [][\A s \in Slots :
          (/\ Closure(s)
           /\ trail[s] # << >>
           /\ trail[s][Len(trail[s])].op = "timeout")
             => ~Published(DisconnectCall(s).ev)]_vars

\* C33: a translation error raised by poll_event leaves the loop polling
\* its session.
C33_TranslationErrorKeepsLoop ==
    [][\A s \in Slots :
          (/\ polled'.polled /\ polled'.s = s
           /\ polled'.frame \in KnownKinds
           /\ polled'.raised # None)
             => lpc'[s] = "poll"]_vars

(* ------------------- properties of the content events ----------------- *)
\* the raw and the resolved delete event of each channel type
RawDelete(ctype) ==
    CASE ctype = "forum" -> "raw_forum_topic_delete"
      [] ctype = "doc" -> "raw_doc_delete"
      [] OTHER -> "raw_announcement_delete"

ResolvedDelete(ctype) ==
    CASE ctype = "forum" -> "forum_topic_delete"
      [] ctype = "doc" -> "doc_delete"
      [] OTHER -> "announcement_delete"

\* C40: a TEAM_CHANNEL_CONTENT_DELETED frame for a channel the client
\* finds, of any of the three types, publishes the raw delete event
\* first, then for cached content the resolved delete event, evicts the
\* content from the channel's cache, and raises nothing.
C40_EachContentTypeDeletes ==
    [][(/\ polled'.polled /\ polled'.frame = "TEAM_CHANNEL_CONTENT_DELETED"
        /\ ChannelOf(polled'.env))
          => LET c == <<polled'.ctype, polled'.id>>
             IN  /\ polled'.raised = None
                 /\ last'.events =
                       IF c \in contents
                       THEN <<RawDelete(c[1]), ResolvedDelete(c[1])>>
                       ELSE <<RawDelete(c[1])>>
                 /\ contents' = contents \ {c}]_vars

(* ------------------- properties of one session ------------------------ *)
\* the operation of the session that has just ended
Op(op) == codec'.did.op = op

\* C34: a payload [eventName, {fields}] encoded by send with raw=False and
\* fed to the inbound path is routed as an event whose kind is eventName
\* and whose payload is the fields.
C34_CodecRoundTrip ==
    [][\A p \in AppPayloads :
          (Op("poll") /\ codec'.did.text = Encode(p, FALSE))
             => /\ codec'.did.raised = None
                /\ codec'.did.class = "event"
                /\ codec'.did.kind = p.head
                /\ codec'.did.data = p.obj]_vars

\* the texts of a handshake object, bare or second of a two-element list,
\* after each numeric prefix
HelloTexts(o) ==
    {Chars(pre) \o <<Json(d)>> : pre \in Prefixes, d \in {Bare(o), List2("0", o)}}

\* C35: a frame carrying a session id, bare or in a list and after any
\* numeric prefix, is the handshake frame: the session takes its sid and
\* upgrades, starts a heartbeater whose period is pingInterval / 1000
\* seconds, and gives nothing to the router.
C35_HandshakeFrameClassified ==
    [][\A o \in HelloObjs :
          ((Op("poll") \/ Op("build")) /\ codec'.did.text \in HelloTexts(o))
             => /\ codec'.did.raised = None
                /\ codec'.did.class = "hello"
                /\ codec'.sid = o.sid
                /\ codec'.upgrades = o.upgrades
                /\ codec'.interval * 1000 = o.pingInterval
                /\ o.pingInterval = 30000 => codec'.interval = 30
                /\ codec'.started = codec.started + 1
                /\ codec'.did.kind = None
                /\ ~Published("message") /\ ~Published("error")
                /\ messages' = messages]_vars

\* a handshake frame in a list, behind the prefix 44, started the
\* heartbeater of a polled session with a period of 30 seconds
C35_Witness ==
    /\ codec.did.op = "poll"
    /\ \E o \in HelloObjs :
          codec.did.text = Chars(<<"4", "4">>) \o <<Json(List2("0", o))>>
    /\ codec.did.class = "hello"
    /\ codec.interval = 30
    /\ codec.started > 0

\* C36: a purely numeric text frame is ignored: poll_event returns, no
\* event of any name is published, the session's id, upgrades and
\* heartbeater are as they were, and the router is not called.
C36_NumericFrameIgnored ==
    [][(Op("poll") /\ codec'.did.text \in Numeric)
          => /\ codec'.did.raised = None
             /\ ~last'.called /\ last'.events = << >>
             /\ codec'.sid = codec.sid
             /\ codec'.upgrades = codec.upgrades
             /\ codec'.started = codec.started
             /\ codec'.interval = codec.interval
             /\ codec'.sock = codec.sock
             /\ codec'.did.kind = None
             /\ messages' = messages
             /\ tasks' = tasks /\ future' = future /\ listeners' = listeners]_vars

\* a session that had its handshake has polled the numeric frame 40
C36_Witness ==
    /\ codec.did.op = "poll"
    /\ codec.did.text = Chars(<<"4", "0">>)
    /\ codec.sid = "abc" /\ codec.started = 1
    /\ codec.did.raised = None

\* C37: build does not raise the handshake error, it returns it, with no
\* session; a session it returns has sent one raw heartbeat token and
\* polled one frame.
C37_BuildReturnsHandshakeError ==
    [][Op("build") =>
          /\ codec'.did.raised # "WSServerHandshakeError"
          /\ codec'.did.ret = "error"
                => /\ codec'.sock = "none"
                   /\ codec'.did.sent = << >> /\ codec'.did.polls = 0
          /\ codec'.did.ret = "session"
                => /\ codec'.sock = "open"
                   /\ codec'.did.sent = <<Chars(<<"2">>)>>
                   /\ codec'.did.polls = 1
          /\ codec'.did.ret = None => codec'.did.raised # None]_vars

\* build has returned the error object of a failed handshake
C37_Witness ==
    /\ codec.did.op = "build"
    /\ codec.did.ret = "error" /\ codec.did.raised = None
    /\ codec.sock = "none"

\* C38: close(code) records the code and closes the transport with it,
\* whether the logout frame could be sent or not.
C38_CloseIsBestEffort ==
    [][\A code \in CloseCodes :
          (Op("close") /\ codec'.close_code = code /\ codec.sock = "open")
             => /\ codec'.sock = "closed"
                /\ codec'.did.closed_with = code
                /\ codec'.did.raised = None]_vars

====
